---- MODULE Spec2Model ----
(* A model of src/src/lib.rs: the generic binary search tree BinaryTree<T>,   *)
(* its four constructors, contains, insert, and the bulk builders from and    *)
(* from_sorted.  T is instantiated with the integers 1..MaxVal.               *)
(* An Option<Box<BinaryTree>> is a sequence of length 0 (None) or 1 (Some).   *)
EXTENDS Integers, Sequences, FiniteSets

\* ---------------------------------------------------------------- bounds
MaxVal == 4
MaxLen == 4
MaxNodes == 4

Values == 1..MaxVal
Slices == UNION {[1..k -> Values] : k \in 0..MaxLen}

\* ---------------------------------------------------------------- the type
None == <<>>
Some(t) == <<t>>

BinaryTree(d, l, r) == [data |-> d, left |-> l, right |-> r]

\* ---------------------------------------------------------------- constructors
leaf(d) == BinaryTree(d, None, None)

left(d, l) == BinaryTree(d, Some(l), None)

right(d, r) == BinaryTree(d, None, Some(r))

branch(d, l, r) == BinaryTree(d, Some(l), Some(r))

\* ---------------------------------------------------------------- contains
RECURSIVE contains_swapped(_, _)
contains_swapped(self, value) ==
  IF value = self.data THEN TRUE
  ELSE IF value > self.data
    THEN IF self.left # None THEN contains_swapped(self.left[1], value) ELSE FALSE
  ELSE IF value < self.data
    THEN IF self.right # None THEN contains_swapped(self.right[1], value) ELSE FALSE
  ELSE FALSE

RECURSIVE contains(_, _)
contains(self, value) ==
  IF value = self.data THEN TRUE
  ELSE IF value > self.data
    THEN IF self.right # None THEN contains(self.right[1], value) ELSE FALSE
  ELSE IF value < self.data
    THEN IF self.left # None THEN contains(self.left[1], value) ELSE FALSE
  ELSE FALSE

\* ---------------------------------------------------------------- insert
\* mutant: both comparisons route to the wrong side
RECURSIVE insert_swapped(_, _)
insert_swapped(self, value) ==
  IF value = self.data THEN self
  ELSE IF value > self.data
    THEN IF self.left # None
           THEN [self EXCEPT !.left = Some(insert_swapped(self.left[1], value))]
           ELSE [self EXCEPT !.left = Some(leaf(value))]
  ELSE IF value < self.data
    THEN IF self.right # None
           THEN [self EXCEPT !.right = Some(insert_swapped(self.right[1], value))]
           ELSE [self EXCEPT !.right = Some(leaf(value))]
  ELSE self

\* mutant: an equal value is not discarded but routed right
RECURSIVE insert_dup(_, _)
insert_dup(self, value) ==
  IF value >= self.data
    THEN IF self.right # None
           THEN [self EXCEPT !.right = Some(insert_dup(self.right[1], value))]
           ELSE [self EXCEPT !.right = Some(leaf(value))]
  ELSE IF self.left # None
           THEN [self EXCEPT !.left = Some(insert_dup(self.left[1], value))]
           ELSE [self EXCEPT !.left = Some(leaf(value))]

\* mutant: an occupied right slot is overwritten instead of descended into
RECURSIVE insert_clobber(_, _)
insert_clobber(self, value) ==
  IF value = self.data THEN self
  ELSE IF value > self.data
    THEN [self EXCEPT !.right = Some(leaf(value))]
  ELSE IF value < self.data
    THEN IF self.left # None
           THEN [self EXCEPT !.left = Some(insert_clobber(self.left[1], value))]
           ELSE [self EXCEPT !.left = Some(leaf(value))]
  ELSE self

\* mutant: the new leaf is attached one level too early on the left
RECURSIVE insert_shallow(_, _)
insert_shallow(self, value) ==
  IF value = self.data THEN self
  ELSE IF value > self.data
    THEN IF self.right # None
           THEN [self EXCEPT !.right = Some(insert_shallow(self.right[1], value))]
           ELSE [self EXCEPT !.right = Some(leaf(value))]
  ELSE IF value < self.data
    THEN IF self.left # None
           THEN [self EXCEPT !.left = Some(left(value, self.left[1]))]
           ELSE [self EXCEPT !.left = Some(leaf(value))]
  ELSE self

\* the receiver after insert(&mut self, value)
RECURSIVE insert(_, _)
insert(self, value) ==
  IF value = self.data THEN self
  ELSE IF value > self.data
    THEN IF self.right # None
           THEN [self EXCEPT !.right = Some(insert(self.right[1], value))]
           ELSE [self EXCEPT !.right = Some(leaf(value))]
  ELSE IF value < self.data
    THEN IF self.left # None
           THEN [self EXCEPT !.left = Some(insert(self.left[1], value))]
           ELSE [self EXCEPT !.left = Some(leaf(value))]
  ELSE self

\* ---------------------------------------------------------------- sort
\* data.sort(): ascending, stable
RECURSIVE sort_insert(_, _)
sort_insert(s, x) ==
  IF Len(s) = 0 THEN <<x>>
  ELSE IF x < Head(s) THEN <<x>> \o s
  ELSE <<Head(s)>> \o sort_insert(Tail(s), x)

RECURSIVE sort(_)
sort(s) == IF Len(s) = 0 THEN <<>> ELSE sort_insert(sort(SubSeq(s, 1, Len(s) - 1)), s[Len(s)])

\* ---------------------------------------------------------------- from_sorted
\* the outcome of a call that may panic
Panic == [panic |-> TRUE, tree |-> None]
Returned(t) == [panic |-> FALSE, tree |-> Some(t)]

pivot_low(len) == (len - 1) \div 2

pivot_last(len) == len - 1

pivot_first(len) == 0

\* let pivot = len >> 1
pivot(len) == len \div 2

has_right_always(p, len) == p + 1 <= len

\* if pivot + 1 < data.len()
has_right(p, len) == p + 1 < len

\* mutant: the slice starts at the pivot and stops one short: &data[pivot..len - 1]
right_slice_off(data, p) == SubSeq(data, p + 1, Len(data) - 1)

\* &data[(pivot + 1)..data.len()], zero-based, as a one-based sequence
right_slice(data, p) == SubSeq(data, p + 2, Len(data))

\* &data[0..pivot]
left_slice(data, p) == SubSeq(data, 1, p)

RECURSIVE from_sorted(_)
from_sorted(data) ==
  LET len == Len(data) IN
  IF len = 0 THEN Panic
  ELSE
    LET p == pivot(len)
        l == IF p > 0 THEN from_sorted(left_slice(data, p)) ELSE [panic |-> FALSE, tree |-> None]
        r == IF has_right(p, len) THEN from_sorted(right_slice(data, p))
             ELSE [panic |-> FALSE, tree |-> None]
    IN IF l.panic \/ r.panic THEN Panic
       ELSE Returned(BinaryTree(data[p + 1], l.tree, r.tree))

\* from: sorts the slice in place, then delegates
from(data) == from_sorted(sort(data))

\* ---------------------------------------------------------------- measures
RECURSIVE Size(_)
Size(t) == 1 + (IF t.left # None THEN Size(t.left[1]) ELSE 0)
             + (IF t.right # None THEN Size(t.right[1]) ELSE 0)

OptSize(o) == IF o = None THEN 0 ELSE Size(o[1])

Max(a, b) == IF a > b THEN a ELSE b

RECURSIVE Depth(_)
Depth(t) == 1 + Max(IF t.left # None THEN Depth(t.left[1]) ELSE 0,
                    IF t.right # None THEN Depth(t.right[1]) ELSE 0)

RECURSIVE Elems(_)
Elems(t) == {t.data} \cup (IF t.left # None THEN Elems(t.left[1]) ELSE {})
                     \cup (IF t.right # None THEN Elems(t.right[1]) ELSE {})

OptElems(o) == IF o = None THEN {} ELSE Elems(o[1])

RECURSIVE IsBST(_)
IsBST(t) ==
  /\ \A x \in OptElems(t.left) : x < t.data
  /\ \A x \in OptElems(t.right) : x > t.data
  /\ (t.left # None => IsBST(t.left[1]))
  /\ (t.right # None => IsBST(t.right[1]))

\* the nodes of a tree as <<path from the root, value>> pairs
RECURSIVE NodesAt(_, _)
NodesAt(t, path) ==
  {<<path, t.data>>}
    \cup (IF t.left # None THEN NodesAt(t.left[1], Append(path, "L")) ELSE {})
    \cup (IF t.right # None THEN NodesAt(t.right[1], Append(path, "R")) ELSE {})

Nodes(o) == IF o = None THEN {} ELSE NodesAt(o[1], <<>>)

Range(s) == {s[i] : i \in 1..Len(s)}
StrictlyAscending(s) == \A i \in 1..(Len(s) - 1) : s[i] < s[i + 1]
Distinct(s) == \A i, j \in 1..Len(s) : i # j => s[i] # s[j]

RECURSIVE Log2(_)
Log2(n) == IF n <= 1 THEN 0 ELSE 1 + Log2(n \div 2)

\* ---------------------------------------------------------------- state
VARIABLES
  tree,      \* the tree the caller holds: None before any is built, else Some
  panicked,  \* a bulk build has panicked
  op,        \* the last operation called
  arg,       \* its value argument (0 when it has none)
  data,      \* the slice as from_sorted received it (after from has sorted it)
  prev,      \* the tree the last operation was applied to (None when it built anew)
  twice,     \* the last two operations were insert of the same value
  fromLeaf,  \* the tree was made by leaf and changed by insert only
  inserted,  \* the values given to leaf and insert since then
  ordered    \* every constructor and bulk call so far was given properly ordered input

vars == <<tree, panicked, op, arg, data, prev, twice, fromLeaf, inserted, ordered>>

Init ==
  /\ tree = None
  /\ panicked = FALSE
  /\ op = "none"
  /\ arg = 0
  /\ data = <<>>
  /\ prev = None
  /\ twice = FALSE
  /\ fromLeaf = FALSE
  /\ inserted = {}
  /\ ordered = TRUE

\* BinaryTree::leaf(v)
Leaf(v) ==
  /\ ~panicked
  /\ tree' = Some(leaf(v))
  /\ op' = "leaf" /\ arg' = v /\ data' = <<>> /\ prev' = None /\ twice' = FALSE
  /\ fromLeaf' = TRUE /\ inserted' = {v} /\ ordered' = TRUE
  /\ UNCHANGED panicked

\* BinaryTree::left(v, tree)
Left(v) ==
  /\ ~panicked /\ tree # None /\ Size(tree[1]) < MaxNodes
  /\ tree' = Some(left(v, tree[1]))
  /\ op' = "left" /\ arg' = v /\ data' = <<>> /\ prev' = tree /\ twice' = FALSE
  /\ fromLeaf' = FALSE /\ inserted' = {}
  /\ ordered' = (ordered /\ \A x \in Elems(tree[1]) : x < v)
  /\ UNCHANGED panicked

\* BinaryTree::right(v, tree)
Right(v) ==
  /\ ~panicked /\ tree # None /\ Size(tree[1]) < MaxNodes
  /\ tree' = Some(right(v, tree[1]))
  /\ op' = "right" /\ arg' = v /\ data' = <<>> /\ prev' = tree /\ twice' = FALSE
  /\ fromLeaf' = FALSE /\ inserted' = {}
  /\ ordered' = (ordered /\ \A x \in Elems(tree[1]) : x > v)
  /\ UNCHANGED panicked

\* BinaryTree::branch(v, tree, leaf(w)) and BinaryTree::branch(v, leaf(w), tree)
Branch(v, w, held) ==
  /\ ~panicked /\ tree # None /\ Size(tree[1]) + 2 <= MaxNodes
  /\ tree' = IF held = "L" THEN Some(branch(v, tree[1], leaf(w)))
                           ELSE Some(branch(v, leaf(w), tree[1]))
  /\ op' = "branch" /\ arg' = v /\ data' = <<>> /\ prev' = tree /\ twice' = FALSE
  /\ fromLeaf' = FALSE /\ inserted' = {}
  /\ ordered' = (/\ ordered
                 /\ IF held = "L" THEN w > v /\ \A x \in Elems(tree[1]) : x < v
                                  ELSE w < v /\ \A x \in Elems(tree[1]) : x > v)
  /\ UNCHANGED panicked

\* tree.insert(v)
Insert(v) ==
  /\ ~panicked /\ tree # None /\ Size(tree[1]) < MaxNodes
  /\ tree' = Some(insert(tree[1], v))
  /\ op' = "insert" /\ arg' = v /\ data' = <<>> /\ prev' = tree
  /\ twice' = (op = "insert" /\ arg = v)
  /\ inserted' = IF fromLeaf THEN inserted \cup {v} ELSE {}
  /\ UNCHANGED <<panicked, fromLeaf, ordered>>

\* the caller's tree after a bulk call on the slice s that ends in outcome res
Bulk(name, s, res, ord) ==
  /\ ~panicked
  /\ panicked' = res.panic
  /\ tree' = res.tree
  /\ op' = name /\ arg' = 0 /\ data' = s /\ prev' = None /\ twice' = FALSE
  /\ fromLeaf' = FALSE /\ inserted' = {}
  /\ ordered' = ord

\* BinaryTree::from_sorted(&s)
FromSorted(s) == Bulk("from_sorted", s, from_sorted(s), StrictlyAscending(s))

\* BinaryTree::from(&mut s)
From(s) == Bulk("from", sort(s), from(s), Distinct(s))

Next ==
  \/ \E v \in Values : Leaf(v)
  \/ \E v \in Values : Left(v)
  \/ \E v \in Values : Right(v)
  \/ \E v, w \in Values, held \in {"L", "R"} : Branch(v, w, held)
  \/ \E v \in Values : Insert(v)
  \/ \E s \in Slices : FromSorted(s)
  \/ \E s \in Slices : From(s)

Spec == Init /\ [][Next]_vars

TypeOK ==
  /\ panicked \in BOOLEAN
  /\ Len(tree) \in {0, 1}
  /\ arg \in 0..MaxVal
  /\ OptSize(tree) <= Max(MaxNodes, MaxLen)

\* ---------------------------------------------------------------- properties
BulkDone == op \in {"from", "from_sorted"} /\ ~panicked
Root == tree[1]

\* C1 (as stated): every tree built by any combination of the constructors,
\* insert and the bulk builders has, at every node, all left values smaller
\* and all right values greater than the node's value.
C1_AnyTreeIsBST == tree # None => IsBST(Root)

\* C1 (amended): the same ordering holds at every node of every tree whose
\* constructor calls were given subtrees lying on the proper side of the new
\* root, whose from_sorted inputs were strictly ascending and whose from
\* inputs had no duplicates, with any inserts in between.
C1_OrderedTreeIsBST == (ordered /\ tree # None) => IsBST(Root)

C1_Witness ==
  /\ ordered /\ op = "branch" /\ OptSize(tree) = 4 /\ IsBST(Root)

\* C2: for a tree made by leaf(v0) and changed only by insert, contains(x) is
\* true exactly for v0 and the values inserted so far, and an insert never
\* makes a present value absent.
C2_ContainsIffInserted ==
  (fromLeaf /\ tree # None) =>
    /\ \A x \in Values : contains(Root, x) <=> x \in inserted
    /\ op = "insert" => \A x \in Values : contains(prev[1], x) => contains(Root, x)

C2_Witness ==
  /\ fromLeaf /\ op = "insert" /\ Cardinality(inserted) = 3
  /\ \E x \in Values : ~contains(Root, x)
  /\ Depth(Root) = 3

\* C3: for a non-empty strictly ascending slice S, from_sorted(S).contains(x)
\* is true for every x in S and false for every other x.
C3_RoundTrip ==
  (BulkDone /\ StrictlyAscending(data)) =>
    \A x \in Values : contains(Root, x) <=> x \in Range(data)

C3_Witness ==
  /\ op = "from_sorted" /\ ~panicked /\ StrictlyAscending(data) /\ Len(data) = 3
  /\ \E x \in Values : ~contains(Root, x)

\* C4: from_sorted and from panic and produce no tree on the empty slice, and
\* on every non-empty slice they return a tree with one node per element (no
\* recursive call is ever made on an empty sub-slice).
C4_PanicIffEmpty ==
  op \in {"from", "from_sorted"} =>
    /\ panicked <=> Len(data) = 0
    /\ panicked => tree = None
    /\ ~panicked => tree # None /\ Size(Root) = Len(data)

C4_Witness == panicked /\ op = "from" /\ tree = None /\ data = <<>>

\* C5: with p = n div 2, the root of from_sorted(S) holds S[p] (zero-based),
\* its left child is absent iff p = 0 and else is the tree built from
\* S[0..p), its right child is absent iff p + 1 = n and else is the tree built
\* from S[p+1..n); from_sorted([1,2,3,4]) is 3 over (2 over 1) and 4.
C5_PivotStructure ==
  BulkDone =>
    LET n == Len(data)
        p == n \div 2
    IN /\ Root.data = data[p + 1]
       /\ Root.left = None <=> p = 0
       /\ p > 0 => Root.left = from_sorted(SubSeq(data, 1, p)).tree
       /\ Root.right = None <=> p + 1 = n
       /\ p + 1 < n => Root.right = from_sorted(SubSeq(data, p + 2, n)).tree
       /\ data = <<1, 2, 3, 4>> =>
            Root = [data |-> 3,
                    left |-> <<[data |-> 2,
                                left |-> <<[data |-> 1, left |-> <<>>, right |-> <<>>]>>,
                                right |-> <<>>]>>,
                    right |-> <<[data |-> 4, left |-> <<>>, right |-> <<>>]>>]

C5_Witness == op = "from_sorted" /\ ~panicked /\ data = <<1, 2, 3, 4>> /\ Root.data = 3

\* C6: a second insert of the same value right after the first changes
\* nothing: no node value and no child link.
C6_InsertIdempotent == twice => tree = prev

C6_Witness ==
  twice /\ tree = prev /\ OptSize(tree) = 3 /\ Root.data # arg /\ ~fromLeaf

\* C7: an insert never removes or changes a node; when the descent for the
\* value meets no equal node, exactly one node is added: a leaf holding the
\* value, on the left (smaller) or right (greater) of the last node of the
\* descent.
RECURSIVE Descent(_, _, _)
Descent(t, v, path) ==
  IF v = t.data THEN [found |-> TRUE, path |-> path, side |-> "-"]
  ELSE LET side == IF v < t.data THEN "L" ELSE "R"
           child == IF side = "L" THEN t.left ELSE t.right
       IN IF child = None THEN [found |-> FALSE, path |-> path, side |-> side]
          ELSE Descent(child[1], v, Append(path, side))

IsPrefix(a, b) == Len(a) <= Len(b) /\ SubSeq(b, 1, Len(a)) = a

C7_InsertAddsOneLeaf ==
  op = "insert" =>
    LET d == Descent(prev[1], arg, <<>>)
        at == Append(d.path, d.side)
    IN /\ Nodes(prev) \subseteq Nodes(tree)
       /\ Size(Root) >= Size(prev[1])
       /\ ~d.found =>
            /\ Size(Root) = Size(prev[1]) + 1
            /\ Nodes(tree) = Nodes(prev) \cup {<<at, arg>>}
            /\ <<at, arg>> \notin Nodes(prev)
            /\ \A n \in Nodes(tree) : IsPrefix(at, n[1]) => n[1] = at

C7_Witness ==
  /\ op = "insert" /\ ~Descent(prev[1], arg, <<>>).found
  /\ Len(Descent(prev[1], arg, <<>>).path) = 2
  /\ Size(Root) = Size(prev[1]) + 1

\* C8: insert keeps a strict search tree a strict search tree, so every tree
\* grown from a leaf by inserts is one and holds no value twice.
C8_InsertPreservesBST ==
  /\ (op = "insert" /\ IsBST(prev[1])) => IsBST(Root)
  /\ (fromLeaf /\ tree # None) => IsBST(Root) /\ Size(Root) = Cardinality(Elems(Root))

C8_Witness ==
  /\ op = "insert" /\ ~fromLeaf /\ IsBST(prev[1]) /\ IsBST(Root)
  /\ Size(Root) = Size(prev[1]) + 1 /\ Size(Root) = 4

\* C9 (as stated): for an even-length input the root's right subtree has more
\* nodes than its left subtree.
C9_HeavierOnRight ==
  (BulkDone /\ Len(data) % 2 = 0) => OptSize(Root.right) > OptSize(Root.left)

\* C9 (amended): for an even-length input the tree is slightly heavier on the
\* left: the root's left subtree has exactly one node more than its right.
C9_HeavierOnLeft ==
  (BulkDone /\ Len(data) % 2 = 0) => OptSize(Root.left) = OptSize(Root.right) + 1

C9_Witness ==
  /\ op = "from_sorted" /\ ~panicked /\ Len(data) = 4
  /\ OptSize(Root.left) = 2 /\ OptSize(Root.right) = 1

\* C10: for a strictly ascending slice of n values, the longest root-to-leaf
\* path of from_sorted's result has at most floor(log2(n)) + 1 nodes.
C10_LogDepth ==
  (BulkDone /\ StrictlyAscending(data)) => Depth(Root) <= Log2(Len(data)) + 1

C10_Witness ==
  /\ op = "from_sorted" /\ ~panicked /\ StrictlyAscending(data) /\ Len(data) = 3
  /\ Depth(Root) = 2
====
